---- MODULE Spec2Model ----
(***************************************************************************)
(* Model of socFinalProject/questions.py: a TF-IDF question answering      *)
(* pipeline.  compute_idfs, top_files and top_sentences are modelled as    *)
(* operators computed the way the code computes them; main is modelled as  *)
(* a sequential process with one action per statement.                     *)
(*                                                                         *)
(* Numbers.  An idf and a sum of idfs is a Python float, an IEEE 754       *)
(* double.  The doubles of the model lie in [0, 16) and are either 0 or at *)
(* least 2^-4, so each is a whole number of units of 2^-56; a double is    *)
(* held as that whole number, written in three limbs of 20 bits,           *)
(* <<high, middle, low>>.  A sum and a product are computed exactly on the *)
(* limbs and then rounded to 53 significant bits, ties to even, as the     *)
(* hardware does.  The value of math.log comes from a table of the doubles *)
(* the C library returns.  A density is a quotient of two small integers   *)
(* and is held as the fraction <<matches, length>> in lowest terms: the    *)
(* division rounds correctly, so two densities compare as their fractions. *)
(*                                                                         *)
(* Sets.  The order in which Python enumerates a set of strings depends on *)
(* the hash seed of the process, so the query is handed to top_files and   *)
(* top_sentences as a sequence, its elements in the order the loop meets   *)
(* them, and the caller draws that order from all orders of the set.       *)
(*                                                                         *)
(* Interpreters.  The repository names no interpreter version, and the     *)
(* builtin sum adds floats from left to right up to Python 3.11 and with   *)
(* Neumaier's compensation since 3.12; top_sentences is handed the way its *)
(* interpreter adds, and the caller draws it from both.                    *)
(***************************************************************************)
EXTENDS Integers, Sequences, FiniteSets, TLC

(***************************************************************************)
(* Bounds of the model.                                                    *)
(***************************************************************************)
MaxDocs == 2    \* documents in a mapping handed to a function
MaxLen == 2     \* tokens in one document
MaxN == 2       \* the n of top_files / top_sentences
MaxFiles == 2   \* entries of the corpus directory
MaxSents == 3   \* lines of text in the corpus directory, all files together

\* The vocabulary the tokenizer can produce.
Terms == {"cat", "sat", "mat", "hat"}

\* Identifiers of the entries of a mapping, in the order they are inserted.
DocNames == <<"d1", "d2", "d3", "d4">>

(***************************************************************************)
(* Floats                                                                  *)
(***************************************************************************)
\* Bits of the significand of a double.
Precision == 53

\* Bits of one limb.
LimbBits == 20

Base == 2^LimbBits

\* The float 0.0, and the int 0 every sum in the code starts from.
Zero == <<0, 0, 0>>

\* Three limbs brought back below Base, the excess carried upwards.
Carry(x) ==
    LET middle == x[2] + x[3] \div Base
    IN <<x[1] + middle \div Base, middle % Base, x[3] % Base>>

RECURSIVE UlpOf(_, _)
\* The spacing of the doubles around a number whose high limb is high,
\* given that it is unit when high has no bit beyond the significand.
UlpOf(high, unit) ==
    IF high < 2^(Precision - 2 * LimbBits) THEN unit
    ELSE UlpOf(high \div 2, 2 * unit)

\* The double nearest to the exact number x, ties to even.
RoundToDouble(x) ==
    LET ulp == UlpOf(x[1], 1)
        rest == x[3] % ulp
        low == x[3] - rest
        odd == (low \div ulp) % 2 = 1
    IN IF 2 * rest > ulp \/ (2 * rest = ulp /\ odd)
       THEN Carry(<<x[1], x[2], low + ulp>>)
       ELSE <<x[1], x[2], low>>

\* What rounding the exact number x to a double leaves behind, x minus the
\* double, in units of the low limb; negative when x is rounded up.
RoundOff(x) ==
    LET ulp == UlpOf(x[1], 1)
        rest == x[3] % ulp
        low == x[3] - rest
        odd == (low \div ulp) % 2 = 1
    IN IF 2 * rest > ulp \/ (2 * rest = ulp /\ odd) THEN rest - ulp ELSE rest

\* The exact a + b, not rounded.
Exact(a, b) == Carry(<<a[1] + b[1], a[2] + b[2], a[3] + b[3]>>)

\* a + b on floats.
Plus(a, b) == RoundToDouble(Exact(a, b))

\* k * a for a count k >= 0 and a float a.
Times(k, a) == RoundToDouble(Carry(<<k * a[1], k * a[2], k * a[3]>>))

\* a < b on floats.
Less(a, b) ==
    \/ a[1] < b[1]
    \/ a[1] = b[1] /\ a[2] < b[2]
    \/ a[1] = b[1] /\ a[2] = b[2] /\ a[3] < b[3]

(***************************************************************************)
(* The builtin sum over floats, started from the int 0                     *)
(***************************************************************************)
\* The two ways interpreters add: "fold" up to Python 3.11, "compensated"
\* since 3.12.
SumVersions == {"fold", "compensated"}

RECURSIVE SumFold(_)
\* result = result + item for each item, from left to right.
SumFold(terms) ==
    IF terms = <<>> THEN Zero
    ELSE Plus(SumFold(SubSeq(terms, 1, Len(terms) - 1)), terms[Len(terms)])

RECURSIVE Neumaier(_)
\* The running total f_result and the compensation c after the loop:
\* t = f_result + x; c += (f_result - t) + x, or (x - t) + f_result when x
\* is the larger; f_result = t.  The bracket is computed without rounding
\* and is what the addition t lost; c is a sum of a few such losses, each
\* a small whole number of units, and is exact too, so c is held as an
\* integer number of units.
Neumaier(terms) ==
    IF terms = <<>> THEN [f_result |-> Zero, c |-> 0]
    ELSE LET before == Neumaier(SubSeq(terms, 1, Len(terms) - 1))
             x == terms[Len(terms)]
         IN [f_result |-> Plus(before.f_result, x),
             c |-> before.c + RoundOff(Exact(before.f_result, x))]

\* if c: f_result += c; return f_result
SumCompensated(terms) ==
    LET r == Neumaier(terms)
    IN IF r.c # 0
       THEN RoundToDouble(Carry(<<r.f_result[1], r.f_result[2],
                                  r.f_result[3] + r.c>>))
       ELSE r.f_result

\* sum(terms) as the interpreter of the given version computes it.
BuiltinSum(terms, version) ==
    IF version = "fold" THEN SumFold(terms) ELSE SumCompensated(terms)

RECURSIVE GCD(_, _)
GCD(a, b) == IF b = 0 THEN a ELSE GCD(b, a % b)

\* The fraction f in lowest terms.
Reduce(f) == LET g == GCD(f[1], f[2]) IN <<f[1] \div g, f[2] \div g>>

\* a < b on fractions.
FractionLess(a, b) == a[1] * b[2] < b[1] * a[2]

\* a < b for two floats or for two fractions.
NumLess(a, b) == IF Len(a) = 3 THEN Less(a, b) ELSE FractionLess(a, b)

\* The double math.log(n / d) returns, for the quotients n / d >= 1 in
\* lowest terms that the model meets, in its corpora and in the tables
\* built elsewhere.
LogTable ==
    <<1, 1>> :> <<0, 0, 0>>
    @@ <<6, 5>> :> <<11948, 655932, 601322>>
    @@ <<5, 4>> :> <<14623, 981235, 341060>>
    @@ <<4, 3>> :> <<18853, 558157, 224836>>
    @@ <<3, 2>> :> <<26572, 588591, 942384>>
    @@ <<5, 3>> :> <<33477, 490816, 565904>>
    @@ <<2, 1>> :> <<45426, 98173, 118648>>
    @@ <<5, 2>> :> <<60050, 30832, 459712>>
    @@ <<3, 1>> :> <<71998, 686765, 12464>>
    @@ <<4, 1>> :> <<90852, 196346, 237296>>
    @@ <<5, 1>> :> <<105476, 129005, 578352>>
    @@ <<6, 1>> :> <<117424, 784938, 131104>>
    @@ <<12, 1>> :> <<162850, 883111, 249760>>

\* The exception math.log(n / d) raises for integers n, d: ZeroDivisionError
\* from the division when d = 0, ValueError (math domain error) from the
\* logarithm when n / d = 0; "none" when it returns.
MathLogRaises(n, d) ==
    IF d = 0 THEN "ZeroDivisionError"
    ELSE IF n = 0 THEN "ValueError"
    ELSE "none"

\* Faulty variant of MathLog: the smoothed form math.log(1 + n / d).
MathLogSmoothed(n, d) == LogTable[Reduce(<<n + d, d>>)]

\* The value of math.log(n / d) when it returns.
MathLog(n, d) == LogTable[Reduce(<<n, d>>)]

(***************************************************************************)
(* Mappings.  A Python dict keeps insertion order, so a mapping from       *)
(* identifiers to token lists is a sequence of entries with distinct ids.  *)
(***************************************************************************)
Range(s) == {s[i] : i \in 1..Len(s)}

Ids(m) == {m[i].id : i \in 1..Len(m)}

\* list.count(word)
Count(words, word) == Cardinality({i \in 1..Len(words) : words[i] = word})

EmptyTable == [w \in {} |-> Zero]

\* idfs.get(word, 0)
IdfGet(idfs, word) == IF word \in DOMAIN idfs THEN idfs[word] ELSE Zero

\* The orders in which a loop over the set s can meet its elements.
Orders(s) == {order \in [1..Cardinality(s) -> s] : Range(order) = s}

(***************************************************************************)
(* compute_idfs                                                            *)
(***************************************************************************)
RECURSIVE DocFrequencyNotAccumulated(_)
\* Faulty variant of DocFrequency: the count of a word is set to 1 for
\* each document that has it instead of being raised by 1.
DocFrequencyNotAccumulated(documents) ==
    IF documents = <<>> THEN [w \in {} |-> 0]
    ELSE LET prev == DocFrequencyNotAccumulated(
                         SubSeq(documents, 1, Len(documents) - 1))
             unique_words == Range(documents[Len(documents)].words)
         IN [w \in (DOMAIN prev) \cup unique_words |-> 1]

RECURSIVE DocFrequency(_)
\* The doc_frequency dictionary after the loop over documents.values().
DocFrequency(documents) ==
    IF documents = <<>> THEN [w \in {} |-> 0]
    ELSE LET prev == DocFrequency(SubSeq(documents, 1, Len(documents) - 1))
             unique_words == Range(documents[Len(documents)].words)
         IN [w \in (DOMAIN prev) \cup unique_words |->
                IF w \in unique_words
                THEN (IF w \in DOMAIN prev THEN prev[w] ELSE 0) + 1
                ELSE prev[w]]

\* compute_idfs(documents): the exception it raises ("none" when it
\* returns) and the table it returns.
ComputeIdfs(documents) ==
    LET num_documents == Len(documents)
        doc_frequency == DocFrequency(documents)
        raised == {MathLogRaises(num_documents, doc_frequency[w]) :
                      w \in DOMAIN doc_frequency} \ {"none"}
    IN IF raised # {}
       THEN [raises |-> CHOOSE e \in raised : TRUE, value |-> EmptyTable]
       ELSE [raises |-> "none",
             value |-> [w \in DOMAIN doc_frequency |->
                          MathLog(num_documents, doc_frequency[w])]]

(***************************************************************************)
(* sorted(items, key=..., reverse=True) and the slice [:n]                 *)
(***************************************************************************)
\* Order of two sort keys.  A key is a tuple of numbers, which Python
\* compares lexicographically; a key that is one number is a tuple of one.
RECURSIVE KeyLess(_, _)
KeyLess(a, b) ==
    IF a = <<>> \/ b = <<>> THEN a = <<>> /\ b # <<>>
    ELSE NumLess(Head(a), Head(b))
         \/ (Head(a) = Head(b) /\ KeyLess(Tail(a), Tail(b)))

\* x put into a list already in descending key order, after every entry
\* whose key is not smaller than x's (the sort is stable).
RECURSIVE Insert(_, _)
Insert(sorted, x) ==
    IF sorted = <<>> THEN <<x>>
    ELSE IF KeyLess(Head(sorted).key, x.key)
         THEN <<x>> \o sorted
         ELSE <<Head(sorted)>> \o Insert(Tail(sorted), x)

RECURSIVE SortedReverse(_)
\* sorted(items, key=..., reverse=True) of a list of [id, key] items.
SortedReverse(items) ==
    IF items = <<>> THEN <<>>
    ELSE Insert(SortedReverse(SubSeq(items, 1, Len(items) - 1)),
                items[Len(items)])

Min(a, b) == IF a < b THEN a ELSE b
Max(a, b) == IF a > b THEN a ELSE b

\* s[:n]
Slice(s, n) ==
    IF n >= 0 THEN SubSeq(s, 1, Min(n, Len(s)))
    ELSE SubSeq(s, 1, Max(Len(s) + n, 0))

(***************************************************************************)
(* top_files.  query is the query set in the order the loops meet it.      *)
(***************************************************************************)
RECURSIVE TfIdfSumNoCount(_, _, _)
\* Faulty variant of TfIdfSum: the idf of a query word is added once,
\* not once per occurrence in the file.
TfIdfSumNoCount(query, file_words, idfs) ==
    IF query = <<>> THEN Zero
    ELSE LET word == query[Len(query)]
             tf_idf_sum == TfIdfSumNoCount(SubSeq(query, 1, Len(query) - 1),
                                           file_words, idfs)
         IN IF word \in Range(file_words)
            THEN Plus(tf_idf_sum, IdfGet(idfs, word))
            ELSE tf_idf_sum

RECURSIVE TfIdfSum(_, _, _)
\* tf_idf_sum after the loop over the words of the query.
TfIdfSum(query, file_words, idfs) ==
    IF query = <<>> THEN Zero
    ELSE LET word == query[Len(query)]
             tf_idf_sum == TfIdfSum(SubSeq(query, 1, Len(query) - 1),
                                    file_words, idfs)
         IN IF word \in Range(file_words)
            THEN Plus(tf_idf_sum,
                      Times(Count(file_words, word), IdfGet(idfs, word)))
            ELSE tf_idf_sum

\* The file_scores dictionary.
FileScores(query, files, idfs) ==
    [i \in 1..Len(files) |->
        [id |-> files[i].id, score |-> TfIdfSum(query, files[i].words, idfs)]]

TopFiles(query, files, idfs, n) ==
    LET file_scores == FileScores(query, files, idfs)
        sorted_files ==
            SortedReverse([i \in 1..Len(file_scores) |->
                [id |-> file_scores[i].id, key |-> <<file_scores[i].score>>]])
        top == Slice(sorted_files, n)
    IN [i \in 1..Len(top) |-> top[i].id]

(***************************************************************************)
(* top_sentences.  query is the query set in the order the loops meet it,   *)
(* version the way the interpreter's builtin sum adds.                     *)
(***************************************************************************)
\* The query words that occur in a token list, in the order the loop over
\* the query meets them.
Matching(query, words) == SelectSeq(query, LAMBDA word : word \in Range(words))

\* Faulty variant of MatchingWordMeasure: the idf of a query word is added
\* for each of its occurrences in the sentence.
MatchingWordMeasurePerOccurrence(query, words, idfs, version) ==
    LET matching == Matching(query, words)
    IN BuiltinSum([k \in 1..Len(matching) |->
                      Times(Count(words, matching[k]),
                            IdfGet(idfs, matching[k]))], version)

\* sum(idfs.get(word, 0) for word in query if word in words)
MatchingWordMeasure(query, words, idfs, version) ==
    LET matching == Matching(query, words)
    IN BuiltinSum([k \in 1..Len(matching) |-> IdfGet(idfs, matching[k])],
                  version)

\* sum(1 for word in words if word in query) / len(words), for len(words) > 0
QueryTermDensity(query, words) ==
    Reduce(<<Cardinality({i \in 1..Len(words) : words[i] \in Range(query)}),
             Len(words)>>)

\* The sentence_scores dictionary, when no division raises.
SentenceScores(query, sentences, idfs, version) ==
    [i \in 1..Len(sentences) |->
        [id |-> sentences[i].id,
         score |-> <<MatchingWordMeasure(query, sentences[i].words, idfs,
                                         version),
                     QueryTermDensity(query, sentences[i].words)>>]]

\* Faulty variant of TopSentences: the sort key is the measure alone.
TopSentencesByMeasure(query, sentences, idfs, n, version) ==
    IF \E i \in 1..Len(sentences) : Len(sentences[i].words) = 0
    THEN [raises |-> "ZeroDivisionError", value |-> <<>>]
    ELSE LET sentence_scores ==
                 SentenceScores(query, sentences, idfs, version)
             sorted_sentences ==
                 SortedReverse([i \in 1..Len(sentence_scores) |->
                     [id |-> sentence_scores[i].id,
                      key |-> <<sentence_scores[i].score[1]>>]])
             top == Slice(sorted_sentences, n)
         IN [raises |-> "none", value |-> [i \in 1..Len(top) |-> top[i].id]]

\* top_sentences(query, sentences, idfs, n): the exception it raises
\* ("none" when it returns) and the list it returns.
TopSentences(query, sentences, idfs, n, version) ==
    IF \E i \in 1..Len(sentences) : Len(sentences[i].words) = 0
    THEN [raises |-> "ZeroDivisionError", value |-> <<>>]
    ELSE LET sentence_scores ==
                 SentenceScores(query, sentences, idfs, version)
             sorted_sentences ==
                 SortedReverse([i \in 1..Len(sentence_scores) |->
                     [id |-> sentence_scores[i].id,
                      key |-> sentence_scores[i].score]])
             top == Slice(sorted_sentences, n)
         IN [raises |-> "none", value |-> [i \in 1..Len(top) |-> top[i].id]]

(***************************************************************************)
(* State                                                                   *)
(***************************************************************************)
VARIABLES
    pc,             \* position of the caller / of main
    err,            \* the exception that ended the call or the run, or "none"
    documents,      \* the mapping handed to the function under call
    n,              \* the n handed to top_files / top_sentences
    query,          \* the query, a set of words
    idfs,           \* the idf table (main: the one computed over sentences)
    doc_frequency,  \* compute_idfs: its doc_frequency dictionary
    scores,         \* top_files: file_scores; top_sentences: sentence_scores
    result,         \* the list the ranking function returned
    argc,           \* main: len(sys.argv)
    directory,      \* main: the corpus directory, [exists, lists, listing]
    files,          \* main: filename -> contents
    file_words,     \* main: filename -> tokens
    file_idfs,      \* main: the idf table computed over files
    filenames,      \* main: the list top_files returned
    sentences,      \* main: sentence -> tokens
    matches,        \* main: the list top_sentences returned
    prompted,       \* main: the stream input() wrote its prompt to, or "none"
    printed,        \* main: what was written to sys.stdout, in order
    nltk_data       \* whether nltk finds the resources tokenize loads

callVars == <<documents, n, doc_frequency, result>>
mainVars == <<argc, directory, files, file_words, file_idfs, filenames,
              sentences, matches, prompted, printed, nltk_data>>
vars == <<pc, err, query, idfs, scores, callVars, mainVars>>

(***************************************************************************)
(* The three functions called on their own: a mapping, a query, an n, and  *)
(* either the table compute_idfs builds from the mapping or a table built  *)
(* elsewhere.  The inputs are of two kinds: every mapping over two terms   *)
(* with every query over them, and the mappings over four terms whose idfs *)
(* add up to one another, with the query of all four, under two tables.    *)
(***************************************************************************)
\* The terms of the first kind of input.
BaseTerms == {"cat", "sat"}

\* word, k times.
Repeat(word, k) == [i \in 1..k |-> word]

\* Every list of at most MaxLen words over BaseTerms, up to the order of
\* its words, which no function reads.
TokenLists ==
    {Repeat("cat", c[1]) \o Repeat("sat", c[2]) :
        c \in {c \in (0..MaxLen) \X (0..MaxLen) : c[1] + c[2] <= MaxLen}}

\* Lists whose scores under SummingTable are equal but for rounding.
SummingLists ==
    {<<"cat", "sat", "mat">>, <<"cat", "sat">>, <<"mat">>, <<"hat">>}

\* Mappings of at most MaxDocs entries whose token lists are in lists.
MappingsOf(lists) ==
    UNION {{[i \in 1..k |-> [id |-> DocNames[i], words |-> w[i]]] :
               w \in [1..k -> lists]} : k \in 0..MaxDocs}

\* A table built from some other corpus, in which idf(cat) + idf(sat) is
\* idf(mat) and idf(cat) + idf(sat) + idf(mat) is idf(hat) but for
\* rounding: ln(4/3) + ln(3/2) = ln(2), ln(4/3) + ln(3/2) + ln(2) = ln(4).
SummingTable ==
    "cat" :> LogTable[<<4, 3>>] @@ "sat" :> LogTable[<<3, 2>>]
        @@ "mat" :> LogTable[<<2, 1>>] @@ "hat" :> LogTable[<<4, 1>>]

\* Lists whose scores under RoundedSumTable are equal but for rounding.
RoundedSumLists == {<<"cat", "sat", "mat">>, <<"hat">>}

\* A table in which idf(cat) + idf(sat) + idf(mat), added from left to
\* right in any order, is one unit in the last place below idf(hat), and
\* added exactly and rounded once is idf(hat):
\* ln(4/3) + ln(3/2) + ln(6) = ln(12).
RoundedSumTable ==
    "cat" :> LogTable[<<4, 3>>] @@ "sat" :> LogTable[<<3, 2>>]
        @@ "mat" :> LogTable[<<6, 1>>] @@ "hat" :> LogTable[<<12, 1>>]

\* A table built from some other corpus, in which a term of the first kind
\* of input is missing.
MissingTermTable == "sat" :> LogTable[<<3, 2>>]

Init ==
    /\ pc = "start"
    /\ err = "none"
    /\ n \in -1..MaxN
    /\ \/ /\ documents \in MappingsOf(TokenLists)
          /\ query \in SUBSET BaseTerms
          /\ idfs = MissingTermTable
       \/ /\ documents \in MappingsOf(SummingLists)
          /\ query = Terms
          /\ idfs = SummingTable
       \/ /\ documents \in MappingsOf(RoundedSumLists)
          /\ query = Terms
          /\ idfs = RoundedSumTable
    /\ doc_frequency = [w \in {} |-> 0]
    /\ scores = <<>>
    /\ result = <<>>
    /\ argc = 0
    /\ directory = [exists |-> FALSE, lists |-> "ok", listing |-> <<>>]
    /\ files = <<>>
    /\ file_words = <<>>
    /\ file_idfs = EmptyTable
    /\ filenames = <<>>
    /\ sentences = <<>>
    /\ matches = <<>>
    /\ prompted = "none"
    /\ printed = <<>>
    /\ nltk_data = "found"

\* idfs = compute_idfs(documents)
CallComputeIdfs ==
    /\ pc = "start"
    /\ LET r == ComputeIdfs(documents)
       IN /\ err' = r.raises
          /\ idfs' = r.value
    /\ doc_frequency' = DocFrequency(documents)
    /\ pc' = "compute_idfs"
    /\ UNCHANGED <<documents, n, query, scores, result, mainVars>>

\* result = top_files(query, documents, idfs, n)
CallTopFiles ==
    /\ pc \in {"start", "compute_idfs"}
    /\ err = "none"
    /\ \E order \in Orders(query) :
          /\ scores' = FileScores(order, documents, idfs)
          /\ result' = TopFiles(order, documents, idfs, n)
    /\ pc' = "top_files"
    /\ UNCHANGED <<err, documents, n, query, idfs, doc_frequency, mainVars>>

\* result = top_sentences(query, documents, idfs, n)
CallTopSentences ==
    /\ pc \in {"start", "compute_idfs"}
    /\ err = "none"
    /\ \E order \in Orders(query), version \in SumVersions :
          LET r == TopSentences(order, documents, idfs, n, version)
          IN /\ err' = r.raises
             /\ result' = r.value
             /\ scores' = IF r.raises = "none"
                          THEN SentenceScores(order, documents, idfs, version)
                          ELSE <<>>
    /\ pc' = "top_sentences"
    /\ UNCHANGED <<documents, n, query, idfs, doc_frequency, mainVars>>

Next == CallComputeIdfs \/ CallTopFiles \/ CallTopSentences

Spec == Init /\ [][Next]_vars

(***************************************************************************)
(* Text.  A string is held as the sequence of its pieces: words,           *)
(* punctuation marks and line breaks.                                      *)
(***************************************************************************)
FILE_MATCHES == 1
SENTENCE_MATCHES == 1

NewLine == "\n"

\* Sentence-ending marks the segmenter recognises.
Terminators == {".", "!", "?"}

\* The characters of string.punctuation that occur in the corpus.
Punctuation == {".", "!", "?"}

\* nltk.corpus.stopwords.words("english"), as far as the corpus goes.
StopWords == {"the", "a"}

\* str.lower()
Lower(word) ==
    CASE word = "The" -> "the"
      [] word = "Cat" -> "cat"
      [] word = "A" -> "a"
      [] OTHER -> word

\* nltk.tokenize.word_tokenize: the words and marks, without white space.
WordTokenize(document) == SelectSeq(document, LAMBDA piece : piece # NewLine)

\* What nltk finds of the resources tokenize loads, the punkt models of
\* word_tokenize and the stopwords corpus: both, or not both.  The program
\* fetches punkt when it is imported and never fetches stopwords.
NltkData == {"found", "missing"}

\* The list tokenize(document) returns when it returns.
Tokens(document) ==
    LET tokenized == WordTokenize(document)
        lowered == [i \in 1..Len(tokenized) |-> Lower(tokenized[i])]
        no_punctuation == SelectSeq(lowered, LAMBDA word : word \notin Punctuation)
    IN SelectSeq(no_punctuation, LAMBDA word : word \notin StopWords)

\* tokenize(document): the exception it raises ("none" when it returns)
\* and the list it returns.  nltk raises LookupError for a resource it
\* does not find, whatever the document.
Tokenize(document, data) ==
    IF data = "missing" THEN [raises |-> "LookupError", value |-> <<>>]
    ELSE [raises |-> "none", value |-> Tokens(document)]

\* Position of the first piece of text that is in marks, 0 if there is none.
FirstOf(text, marks) ==
    IF \E i \in 1..Len(text) : text[i] \in marks
    THEN CHOOSE i \in 1..Len(text) :
            /\ text[i] \in marks
            /\ \A j \in 1..(i - 1) : text[j] \notin marks
    ELSE 0

RECURSIVE Split(_)
\* text.split("\n")
Split(text) ==
    LET i == FirstOf(text, {NewLine})
    IN IF i = 0 THEN <<text>>
       ELSE <<SubSeq(text, 1, i - 1)>> \o Split(SubSeq(text, i + 1, Len(text)))

RECURSIVE SentTokenize(_)
\* nltk.sent_tokenize(passage): a sentence ends with its terminator; what
\* follows the last terminator is a sentence too.
SentTokenize(passage) ==
    LET i == FirstOf(passage, Terminators)
    IN IF passage = <<>> THEN <<>>
       ELSE IF i = 0 THEN <<passage>>
       ELSE <<SubSeq(passage, 1, i)>>
                \o SentTokenize(SubSeq(passage, i + 1, Len(passage)))

(***************************************************************************)
(* Dictionaries keyed by file name or by sentence                          *)
(***************************************************************************)
\* d[key]
DictGet(d, key) == d[CHOOSE i \in 1..Len(d) : d[i].id = key]

\* d[key] = entry: a new key is appended, a known key keeps its place.
DictSet(d, entry) ==
    IF entry.id \in Ids(d)
    THEN [i \in 1..Len(d) |-> IF d[i].id = entry.id THEN entry ELSE d[i]]
    ELSE Append(d, entry)

(***************************************************************************)
(* load_files and the loops of main                                        *)
(***************************************************************************)
\* filename.endswith(".txt"), a file name being <<stem, extension>>
IsTxt(filename) == filename[2] = ".txt"

\* The exceptions os.listdir(directory) raises on a directory that
\* exists: the process may not read it.
ListErrors == {"PermissionError"}

\* The exceptions open(file_path, "r", encoding="utf-8") and file.read()
\* raise: the entry is a directory, may not be read, is not UTF-8 text, is
\* a symbolic link to nothing (FileNotFoundError) or a symbolic link to
\* itself (OSError, too many levels of symbolic links).
OpenErrors ==
    {"IsADirectoryError", "PermissionError", "UnicodeDecodeError",
     "FileNotFoundError", "OSError"}

RECURSIVE ReadEntries(_)
\* The loop over os.listdir(directory): the exception that ends it ("none"
\* when it runs to its end) and file_contents when it ends.  An entry is
\* [name, opens, text]: opens is "ok" or the exception that opening and
\* reading it raises.
ReadEntries(listing) ==
    IF listing = <<>> THEN [raises |-> "none", value |-> <<>>]
    ELSE LET before == ReadEntries(SubSeq(listing, 1, Len(listing) - 1))
             entry == listing[Len(listing)]
         IN IF before.raises # "none" \/ ~IsTxt(entry.name) THEN before
            ELSE IF entry.opens # "ok"
            THEN [raises |-> entry.opens, value |-> before.value]
            ELSE [raises |-> "none",
                  value |-> DictSet(before.value,
                                    [id |-> entry.name, text |-> entry.text])]

\* load_files(directory): the exception it raises ("none" when it
\* returns) and the dictionary it returns.  A directory is [exists, lists,
\* listing]: lists is "ok" or the exception that os.listdir raises.
LoadFiles(dir) ==
    IF ~dir.exists THEN [raises |-> "ValueError", value |-> <<>>]
    ELSE IF dir.lists # "ok" THEN [raises |-> dir.lists, value |-> <<>>]
    ELSE ReadEntries(dir.listing)

\* file_words = {filename: tokenize(files[filename]) for filename in files}:
\* the exception the first call of tokenize that raises raises, and the
\* dictionary.
FileWords(fs, data) ==
    LET tokenized == [i \in 1..Len(fs) |-> Tokenize(fs[i].text, data)]
        raising == {i \in 1..Len(fs) : tokenized[i].raises # "none"}
    IN IF raising # {}
       THEN [raises |-> tokenized[CHOOSE i \in raising :
                                     \A j \in raising : i <= j].raises,
             value |-> <<>>]
       ELSE [raises |-> "none",
             value |-> [i \in 1..Len(fs) |->
                           [id |-> fs[i].id, words |-> tokenized[i].value]]]

\* Faulty variant of AddSentence: the test on tokens is left out.
AddSentenceUnfiltered(sents, sentence) ==
    DictSet(sents, [id |-> sentence, words |-> Tokens(sentence)])

\* The body of the innermost loop of main: the sentence is kept when it
\* has tokens.  The loop is reached when tokenize has returned the words
\* of the query, so nltk has found its resources.
AddSentence(sents, sentence) ==
    LET tokens == Tokens(sentence)
    IN IF tokens # <<>>
       THEN DictSet(sents, [id |-> sentence, words |-> tokens])
       ELSE sents

RECURSIVE AddSentences(_, _)
\* for sentence in nltk.sent_tokenize(passage): ...
AddSentences(sents, list) ==
    IF list = <<>> THEN sents
    ELSE AddSentences(AddSentence(sents, Head(list)), Tail(list))

RECURSIVE AddPassages(_, _)
\* for passage in files[filename].split("\n"): ...
AddPassages(sents, passages) ==
    IF passages = <<>> THEN sents
    ELSE AddPassages(AddSentences(sents, SentTokenize(Head(passages))),
                     Tail(passages))

RECURSIVE ExtractSentences(_, _, _)
\* for filename in filenames: ...
ExtractSentences(sents, names, fs) ==
    IF names = <<>> THEN sents
    ELSE ExtractSentences(
             AddPassages(sents, Split(DictGet(fs, Head(names)).text)),
             Tail(names), fs)

(***************************************************************************)
(* main, run on every corpus directory and query line within the bounds    *)
(***************************************************************************)
\* The lines files are made of: a sentence, a heading that ends with a
\* line break instead of a full stop, a sentence of stopwords only.
Lines ==
    { <<"The", "cat", "sat", ".">>,
      <<"Cat", "cat", NewLine>>,
      <<"The", ".">> }

RECURSIVE Flatten(_)
Flatten(ls) == IF ls = <<>> THEN <<>> ELSE Head(ls) \o Flatten(Tail(ls))

\* File contents of at most MaxSents lines.
Texts == {Flatten(ls) : ls \in UNION {[1..k -> Lines] : k \in 0..MaxSents}}

\* The number of lines a text was made of: each ends with a full stop or
\* with a line break and holds no other.
Size(text) ==
    Cardinality({i \in 1..Len(text) : text[i] \in {".", NewLine}})

FileNames == {<<"a", ".txt">>, <<"b", ".txt">>, <<"notes", ".md">>}

\* The entries a directory can hold: a readable file with its contents, or
\* an entry that cannot be opened and read.  What an entry that is not
\* opened holds does not matter.
Entries ==
    {e \in [name : FileNames, opens : {"ok"} \cup OpenErrors, text : Texts] :
        /\ e.opens # "ok" => e.text = <<>>
        /\ ~IsTxt(e.name) => (e.opens = "ok" /\ e.text = <<>>)}

RECURSIVE ListingsWithin(_, _, _)
\* The listings of at most count entries with names among names, no name
\* twice, in any order, whose files hold at most lines lines together.
ListingsWithin(names, count, lines) ==
    {<<>>} \cup
        IF count = 0 THEN {}
        ELSE UNION {{<<e>> \o l :
                        l \in ListingsWithin(names \ {e.name}, count - 1,
                                             lines - Size(e.text))} :
                    e \in {e \in Entries :
                              e.name \in names /\ Size(e.text) <= lines}}

\* The directories main can be pointed at: one that does not exist, one
\* that lists, and one that exists and may not be listed, whatever it
\* holds.  What os.listdir can return is at most count entries, in any
\* order, no name twice, of at most lines lines together.
Directories(count, lines) ==
    LET listings == ListingsWithin(FileNames, count, lines)
    IN {[exists |-> FALSE, lists |-> "ok", listing |-> <<>>]}
        \cup {[exists |-> TRUE, lists |-> "ok", listing |-> l] : l \in listings}
        \cup {[exists |-> TRUE, lists |-> e, listing |-> l] :
                 e \in ListErrors, l \in {l \in listings : Len(l) <= 1}}

\* What the user can type at the prompt.
QueryLines ==
    { <<"The", "?">>, <<"cat">>, <<"sat">>, <<"Cat", "sat", "?">> }

\* The prompt of input().
Prompt == <<"Query: ">>

\* The streams input() writes the prompt to: standard error when standard
\* input and standard output are both a terminal and no line editor is
\* loaded, standard output otherwise.
PromptStreams == {"stdout", "stderr"}

\* The exception input() raises before it writes anything: sys.stdin,
\* sys.stdout or sys.stderr is lost, the process having been started with
\* the stream closed.
LostStreamErrors == {"RuntimeError"}

\* The exceptions input() raises from the write of the prompt to a
\* standard output that is not buffered: the device is full (OSError, no
\* space left on device) or the reader of the pipe is gone.
PromptErrors == {"OSError", "BrokenPipeError"}

\* The exceptions input() raises in place of returning a line, the prompt
\* written: standard input is at its end, the user interrupts the wait,
\* the bytes read are not text in the encoding of standard input, or the
\* read fails (OSError, bad file descriptor).
ReadErrors == {"EOFError", "KeyboardInterrupt", "UnicodeDecodeError", "OSError"}

\* The exceptions input() raises.
InputErrors == LostStreamErrors \cup PromptErrors \cup ReadErrors

\* The exceptions print(match) raises on a standard output that is not
\* buffered: the reader of the pipe is gone, or the device is full.
PrintErrors == {"BrokenPipeError", "OSError"}

MainInit ==
    /\ pc = "import"
    /\ err = "none"
    /\ directory \in Directories(MaxFiles, MaxSents)
    /\ argc \in 1..3
    /\ argc # 2 => ~directory.exists
    /\ nltk_data \in NltkData
    /\ query = {}
    /\ idfs = EmptyTable
    /\ scores = <<>>
    /\ documents = <<>>
    /\ n = 0
    /\ doc_frequency = [w \in {} |-> 0]
    /\ result = <<>>
    /\ files = <<>>
    /\ file_words = <<>>
    /\ file_idfs = EmptyTable
    /\ filenames = <<>>
    /\ sentences = <<>>
    /\ matches = <<>>
    /\ prompted = "none"
    /\ printed = <<>>

\* nltk.download('punkt'), run when the module is imported: it reports to
\* standard error, raises nothing, and returns whether punkt is installed
\* now.  Resources that were found are found; resources that were missing
\* are found when punkt was the one missing and has been fetched.
Download ==
    /\ pc = "import"
    /\ nltk_data' \in IF nltk_data = "found" THEN {"found"} ELSE NltkData
    /\ pc' = "main"
    /\ UNCHANGED <<err, query, idfs, scores, callVars, argc, directory, files,
                   file_words, file_idfs, filenames, sentences, matches,
                   prompted, printed>>

\* if len(sys.argv) != 2: sys.exit("Usage: python questions.py corpus")
Usage ==
    /\ pc = "main"
    /\ argc # 2
    /\ err' = "SystemExit"
    /\ pc' = "exit"
    /\ UNCHANGED <<query, idfs, scores, callVars, mainVars>>

\* files = load_files(sys.argv[1])
Load ==
    /\ pc = "main"
    /\ argc = 2
    /\ LET r == LoadFiles(directory)
       IN /\ files' = IF r.raises = "none" THEN r.value ELSE files
          /\ pc' = IF r.raises = "none" THEN "file_idfs" ELSE "exit"
          /\ err' = r.raises
    /\ UNCHANGED <<query, idfs, scores, callVars, argc, directory, file_words,
                   file_idfs, filenames, sentences, matches, prompted,
                   printed, nltk_data>>

\* file_words = {...}; file_idfs = compute_idfs(file_words)
FileIdfs ==
    /\ pc = "file_idfs"
    /\ LET words == FileWords(files, nltk_data)
           r == IF words.raises # "none"
                THEN [raises |-> words.raises, value |-> file_idfs]
                ELSE ComputeIdfs(words.value)
       IN /\ file_words' = IF words.raises = "none" THEN words.value
                           ELSE file_words
          /\ file_idfs' = r.value
          /\ err' = r.raises
          /\ pc' = IF r.raises = "none" THEN "query" ELSE "exit"
    /\ UNCHANGED <<query, idfs, scores, callVars, argc, directory, files,
                   filenames, sentences, matches, prompted, printed,
                   nltk_data>>

\* input("Query: "), its first half: input() finds the three standard
\* streams and writes the prompt, and then waits for a line; or it raises
\* with nothing written, a stream being lost or the write failing.
WritePrompt ==
    /\ pc = "query"
    /\ \/ \E stream \in PromptStreams :
             /\ prompted' = stream
             /\ printed' = IF stream = "stdout" THEN Append(printed, Prompt)
                           ELSE printed
             /\ err' = err
             /\ pc' = "input"
       \/ \E e \in LostStreamErrors \cup PromptErrors :
             /\ prompted' = prompted
             /\ printed' = printed
             /\ err' = e
             /\ pc' = "exit"
    /\ UNCHANGED <<query, idfs, scores, callVars, argc, directory, files,
                   file_words, file_idfs, filenames, sentences, matches,
                   nltk_data>>

\* query = set(tokenize(input("Query: "))), from the wait on: input()
\* returns the line it reads and tokenize is called on it, or input()
\* raises.
ReadQuery ==
    /\ pc = "input"
    /\ \/ \E line \in QueryLines :
             LET r == Tokenize(line, nltk_data)
             IN /\ query' = IF r.raises = "none" THEN Range(r.value)
                            ELSE query
                /\ err' = r.raises
                /\ pc' = IF r.raises = "none" THEN "top_files" ELSE "exit"
       \/ \E e \in ReadErrors :
             /\ query' = query
             /\ err' = e
             /\ pc' = "exit"
    /\ UNCHANGED <<idfs, scores, callVars, mainVars>>

\* filenames = top_files(query, file_words, file_idfs, n=FILE_MATCHES)
RankFiles ==
    /\ pc = "top_files"
    /\ \E order \in Orders(query) :
          filenames' = TopFiles(order, file_words, file_idfs, FILE_MATCHES)
    /\ pc' = "sentences"
    /\ UNCHANGED <<err, query, idfs, scores, callVars, argc, directory, files,
                   file_words, file_idfs, sentences, matches, prompted,
                   printed, nltk_data>>

\* sentences = dict(); for filename in filenames: ...  nltk.sent_tokenize
\* and tokenize are called when a file was returned, and raise when nltk
\* does not find its resources.
Extract ==
    /\ pc = "sentences"
    /\ LET raises == IF filenames # <<>>
                     THEN Tokenize(<<>>, nltk_data).raises
                     ELSE "none"
       IN /\ sentences' = IF raises = "none"
                          THEN ExtractSentences(<<>>, filenames, files)
                          ELSE sentences
          /\ err' = raises
          /\ pc' = IF raises = "none" THEN "idfs" ELSE "exit"
    /\ UNCHANGED <<query, idfs, scores, callVars, argc, directory, files,
                   file_words, file_idfs, filenames, matches, prompted,
                   printed, nltk_data>>

\* idfs = compute_idfs(sentences)
SentenceIdfs ==
    /\ pc = "idfs"
    /\ LET r == ComputeIdfs(sentences)
       IN /\ idfs' = r.value
          /\ err' = r.raises
          /\ pc' = IF r.raises = "none" THEN "top_sentences" ELSE "exit"
    /\ UNCHANGED <<query, scores, callVars, mainVars>>

\* Faulty variant of RankSentences: top_sentences is handed file_idfs.
RankSentencesWithFileIdfs ==
    /\ pc = "top_sentences"
    /\ \E order \in Orders(query), version \in SumVersions :
          LET r == TopSentences(order, sentences, file_idfs, SENTENCE_MATCHES,
                                version)
          IN /\ matches' = r.value
             /\ err' = r.raises
             /\ scores' = IF r.raises = "none"
                          THEN SentenceScores(order, sentences, file_idfs,
                                              version)
                          ELSE <<>>
             /\ pc' = IF r.raises = "none" THEN "print" ELSE "exit"
    /\ UNCHANGED <<query, idfs, callVars, argc, directory, files, file_words,
                   file_idfs, filenames, sentences, prompted, printed,
                   nltk_data>>

\* matches = top_sentences(query, sentences, idfs, n=SENTENCE_MATCHES)
RankSentences ==
    /\ pc = "top_sentences"
    /\ \E order \in Orders(query), version \in SumVersions :
          LET r == TopSentences(order, sentences, idfs, SENTENCE_MATCHES,
                                version)
          IN /\ matches' = r.value
             /\ err' = r.raises
             /\ scores' = IF r.raises = "none"
                          THEN SentenceScores(order, sentences, idfs,
                                              version)
                          ELSE <<>>
             /\ pc' = IF r.raises = "none" THEN "print" ELSE "exit"
    /\ UNCHANGED <<query, idfs, callVars, argc, directory, files, file_words,
                   file_idfs, filenames, sentences, prompted, printed,
                   nltk_data>>

\* for match in matches: print(match).  Every match is written, or a
\* print raises after the matches before it are written.
EmitMatches ==
    /\ pc = "print"
    /\ \/ /\ printed' = printed \o matches
          /\ err' = err
          /\ pc' = "done"
       \/ \E k \in 1..Len(matches), e \in PrintErrors :
             /\ printed' = printed \o SubSeq(matches, 1, k - 1)
             /\ err' = e
             /\ pc' = "exit"
    /\ UNCHANGED <<query, idfs, scores, callVars, argc, directory, files,
                   file_words, file_idfs, filenames, sentences, matches,
                   prompted, nltk_data>>

MainNext ==
    \/ Download
    \/ Usage
    \/ Load
    \/ FileIdfs
    \/ WritePrompt
    \/ ReadQuery
    \/ RankFiles
    \/ Extract
    \/ SentenceIdfs
    \/ RankSentences
    \/ EmitMatches

MainSpec == MainInit /\ [][MainNext]_vars

(***************************************************************************)
(* Properties of the three functions, checked under Spec                   *)
(***************************************************************************)
\* The number of documents of the mapping whose token list contains t.
DocsWith(t) ==
    Cardinality({i \in 1..Len(documents) : t \in Range(documents[i].words)})

\* The terms that occur in at least one document of the mapping.
Vocabulary == UNION {Range(documents[i].words) : i \in 1..Len(documents)}

\* Position of an identifier in the enumeration order of the mapping.
PosOf(id) == CHOOSE i \in 1..Len(documents) : documents[i].id = id

\* The identifiers of the mapping that the returned list leaves out.
Omitted == Ids(documents) \ Range(result)

\* The double nearest to ln(p / q).
Ln(p, q) == LogTable[Reduce(<<p, q>>)]

RECURSIVE Sum(_)
\* The floats of a list added up from left to right, starting from 0.
Sum(terms) ==
    IF terms = <<>> THEN Zero
    ELSE Plus(Sum(SubSeq(terms, 1, Len(terms) - 1)), terms[Len(terms)])

RECURSIVE ExactSum(_)
\* The floats of a list added up without rounding.
ExactSum(terms) ==
    IF terms = <<>> THEN Zero
    ELSE Exact(ExactSum(SubSeq(terms, 1, Len(terms) - 1)), terms[Len(terms)])

\* The query terms that occur in a token list, in the order given.
Present(order, words) == SelectSeq(order, LAMBDA t : t \in Range(words))

\* The positions of a token list that hold a query term.
QueryPositions(words) == {i \in 1..Len(words) : words[i] \in query}

\* C1: compute_idfs called with an empty documents mapping fails with a
\* domain error instead of returning a table.
C1_EmptyMappingRaises ==
    (pc = "compute_idfs" /\ documents = <<>>) => err # "none"

\* C3: the keys of the table compute_idfs returns are exactly the terms
\* that occur in some document; the document frequency of a term is the
\* number of documents containing it, whatever its repetitions inside a
\* document; a copy of a document under a new identifier raises the
\* frequency of each of its terms by exactly 1 and of no other term.
C3_DocumentFrequency ==
    pc = "compute_idfs" =>
        /\ err = "none"
        /\ DOMAIN idfs = Vocabulary
        /\ DOMAIN doc_frequency = Vocabulary
        /\ \A t \in Vocabulary : doc_frequency[t] = DocsWith(t)
        /\ \A i \in 1..Len(documents) :
              LET copy == [id |-> DocNames[Len(documents) + 1],
                           words |-> documents[i].words]
                  after == DocFrequency(Append(documents, copy))
              IN /\ DOMAIN after = Vocabulary
                 /\ \A t \in Vocabulary :
                       after[t] = IF t \in Range(copy.words)
                                  THEN doc_frequency[t] + 1
                                  ELSE doc_frequency[t]

C3_Witness ==
    /\ pc = "compute_idfs"
    /\ Len(documents) >= 2
    /\ \E t \in Vocabulary :
          /\ doc_frequency[t] = 1
          /\ \E i \in 1..Len(documents) : Count(documents[i].words, t) >= 2
    /\ Vocabulary # Terms

\* C4: for a non-empty mapping of N documents and every term t of the
\* table, idf(t) = ln(N / df(t)) lies in [0, ln N], is 0 exactly when t
\* occurs in every document and is strictly positive otherwise.
C4_IdfRange ==
    (pc = "compute_idfs" /\ documents # <<>>) =>
        \A t \in DOMAIN idfs :
            LET N == Len(documents)
            IN /\ idfs[t] = Ln(N, DocsWith(t))
               /\ ~Less(idfs[t], Zero)
               /\ ~Less(Ln(N, 1), idfs[t])
               /\ idfs[t] = Zero <=> DocsWith(t) = N
               /\ DocsWith(t) < N => Less(Zero, idfs[t])

C4_Witness ==
    /\ pc = "compute_idfs"
    /\ Len(documents) >= 2
    /\ \E t, u \in DOMAIN idfs :
          /\ idfs[t] = Zero
          /\ idfs[u] = Ln(Len(documents), 1)
          /\ Less(Zero, idfs[u])

\* The score the claim gives a file: over the query terms t present in
\* it, the sum of (occurrences of t) * idf(t), idf(t) being 0 when t is
\* missing from the table; the terms are added in the order given.
ClaimedFileScore(order, words) ==
    LET present == Present(order, words)
    IN Sum([k \in 1..Len(present) |->
               Times(Count(words, present[k]), IdfGet(idfs, present[k]))])

\* The measure the claim gives a sentence: the sum of idf(t) over the
\* distinct query terms t present in it, added in the order given.
ClaimedMeasure(order, words, table) ==
    LET present == Present(order, words)
    IN Sum([k \in 1..Len(present) |-> IdfGet(table, present[k])])

\* The same sum taken exactly and rounded once, which is what a
\* compensated sum returns; it does not depend on the order.
ClaimedMeasureRounded(words, table) ==
    LET present == Present(CHOOSE order \in Orders(query) : TRUE, words)
    IN RoundToDouble(ExactSum([k \in 1..Len(present) |->
                                  IdfGet(table, present[k])]))

\* C5: for n >= 0, top_files returns exactly min(n, number of files)
\* distinct file identifiers in non-increasing order of score, the score
\* of a file being the sum over the query terms present in it of
\* (occurrences in the file) * idf, with idf 0 for a term missing from
\* idfs, and no file left out scores strictly higher than a returned one.
C5_TopFiles ==
    (pc = "top_files" /\ n >= 0) =>
        /\ Len(result) = Min(n, Len(documents))
        /\ Range(result) \subseteq Ids(documents)
        /\ \A i, j \in 1..Len(result) : i # j => result[i] # result[j]
        /\ Len(scores) = Len(documents)
        /\ \A i \in 1..Len(documents) : scores[i].id = documents[i].id
        /\ \E order \in Orders(query) : \A i \in 1..Len(documents) :
              scores[i].score = ClaimedFileScore(order, documents[i].words)
        /\ \A i, j \in 1..Len(result) :
              i < j => ~Less(scores[PosOf(result[i])].score,
                             scores[PosOf(result[j])].score)
        /\ \A out \in Omitted : \A i \in 1..Len(result) :
              ~Less(scores[PosOf(result[i])].score, scores[PosOf(out)].score)

C5_Witness ==
    /\ pc = "top_files"
    /\ n = 2
    /\ Len(documents) = 2
    /\ result = <<documents[2].id, documents[1].id>>
    /\ Less(scores[1].score, scores[2].score)
    /\ Less(Zero, scores[1].score)
    /\ \E t \in query : Count(documents[2].words, t) = 2
    /\ \E t \in query : t \in Vocabulary /\ t \notin DOMAIN idfs

\* C6: in the list top_sentences returns, a sentence a that precedes a
\* sentence b has a greater matching-word measure, or the same measure
\* and a density that is not smaller; and no sentence left out has a
\* strictly greater (measure, density) than a returned one.
C6_SentenceOrder ==
    (pc = "top_sentences" /\ err = "none") =>
        LET measure(id) == scores[PosOf(id)].score[1]
            density(id) == scores[PosOf(id)].score[2]
            Precedes(a, b) ==
                \/ Less(measure(b), measure(a))
                \/ measure(a) = measure(b)
                      /\ ~FractionLess(density(a), density(b))
        IN /\ \A i, j \in 1..Len(result) :
                 i < j => Precedes(result[i], result[j])
           /\ \A out \in Omitted : \A i \in 1..Len(result) :
                 Precedes(result[i], out)

C6_Witness ==
    /\ pc = "top_sentences"
    /\ err = "none"
    /\ n = 2
    /\ Len(documents) = 2
    /\ result = <<documents[2].id, documents[1].id>>
    /\ scores[1].score[1] = scores[2].score[1]
    /\ Less(Zero, scores[1].score[1])
    /\ FractionLess(scores[1].score[2], scores[2].score[2])

\* C9: the matching-word measure of a sentence is the sum of idf(t), 0
\* when t is missing from idfs, over the distinct query terms t that
\* occur in it (the floats added in the order of the query set, or added
\* exactly and rounded once, as the interpreter does), so one more
\* occurrence of a query term leaves the measure as it is; the density
\* counts every occurrence of a query term among the tokens of the
\* sentence.
C9_MeasureAndDensity ==
    (pc = "top_sentences" /\ err = "none") =>
      LET orders == Orders(query)
      IN
        /\ \/ \E order \in orders : \A i \in 1..Len(documents) :
                 scores[i].score[1]
                     = ClaimedMeasure(order, documents[i].words, idfs)
           \/ \A i \in 1..Len(documents) :
                 scores[i].score[1]
                     = ClaimedMeasureRounded(documents[i].words, idfs)
        /\ \A i \in 1..Len(documents) :
              LET words == documents[i].words
                  hits == Cardinality(QueryPositions(words))
                  measure == [order \in orders |-> [version \in SumVersions |->
                                 MatchingWordMeasure(order, words, idfs,
                                                     version)]]
              IN /\ scores[i].score[2] = Reduce(<<hits, Len(words)>>)
                 /\ \A t \in Range(words) \cap query :
                       \A order \in orders, version \in SumVersions :
                          LET longer == Append(words, t)
                          IN /\ MatchingWordMeasure(order, longer, idfs,
                                                     version)
                                   = measure[order][version]
                             /\ QueryTermDensity(order, longer)
                                   = Reduce(<<hits + 1, Len(words) + 1>>)

C9_Witness ==
    /\ pc = "top_sentences"
    /\ err = "none"
    /\ \E i \in 1..Len(documents) : \E t \in query :
          /\ Count(documents[i].words, t) = 2
          /\ Less(Zero, IdfGet(idfs, t))
          /\ scores[i].score[1] = IdfGet(idfs, t)
          /\ scores[i].score[2] = <<1, 1>>

\* The sort key of an entry of the mapping in the call that has returned.
SortKey(id) == scores[PosOf(id)].score

\* Entries with equal sort keys come in the enumeration order of the
\* mapping, a left-out entry whose key equals a returned one comes later in
\* the mapping, and with an empty query every score is 0, or (0, 0), and
\* the list is the first min(n, size) identifiers of the mapping.
StableOrder ==
    LET Tied(a, b) == SortKey(a) = SortKey(b)
    IN /\ \A i, j \in 1..Len(result) :
             (i < j /\ Tied(result[i], result[j]))
                 => PosOf(result[i]) < PosOf(result[j])
       /\ \A out \in Omitted : \A i \in 1..Len(result) :
             Tied(result[i], out) => PosOf(result[i]) < PosOf(out)
       /\ query = {} =>
             /\ \A i \in 1..Len(documents) :
                   IF pc = "top_files"
                   THEN scores[i].score = Zero
                   ELSE scores[i].score = <<Zero, <<0, 1>>>>
             /\ result = [i \in 1..Min(n, Len(documents)) |->
                             documents[i].id]

\* The list the call that has returned gives when the loops over the
\* query meet its words in the order given, under the interpreter given.
ResultFor(order, version) ==
    IF pc = "top_files" THEN TopFiles(order, documents, idfs, n)
    ELSE TopSentences(order, documents, idfs, n, version).value

\* C10: top_files and top_sentences return the one list their inputs
\* determine: under one interpreter the list is the same whatever the
\* order in which the query set is enumerated; entries with equal sort
\* keys come in the enumeration order of the mapping, and with an empty
\* query every score is 0, or (0, 0), and the list is the first
\* min(n, size) identifiers of the mapping.
C10_Deterministic ==
    (pc \in {"top_files", "top_sentences"} /\ err = "none" /\ n >= 0) =>
        /\ \E version \in SumVersions :
              \A order \in Orders(query) : result = ResultFor(order, version)
        /\ StableOrder

(***************************************************************************)
(* Properties of main, checked under MainSpec                              *)
(***************************************************************************)
\* main was given one argument, the path of a directory that exists and
\* can be listed.
ValidRun == argc = 2 /\ directory.exists /\ directory.lists = "ok"

\* The directory holds no .txt file.
EmptyCorpus ==
    \A i \in 1..Len(directory.listing) : ~IsTxt(directory.listing[i].name)

\* The places of main at which the query has been read.
QueryRead == pc \in {"top_files", "sentences", "idfs", "top_sentences", "print", "done"}

\* The run is one the claim is about: a valid directory, and no file in
\* the corpus or no word in the query.
EmptyRun == ValidRun /\ (EmptyCorpus \/ (QueryRead /\ query = {}))

\* C2: a run on a valid corpus directory never ends with an exception
\* when the corpus has no files or when the tokenized query is empty.
C2_EmptyRunNeverRaises == EmptyRun => err = "none"

\* The sentences of the files top_files returned that have tokens.
CandidateSentences ==
    {s \in UNION {UNION {Range(SentTokenize(passage)) :
                            passage \in Range(Split(DictGet(files, f).text))} :
                     f \in Range(filenames)} :
        Tokens(s) # <<>>}

\* Those of the given sentences whose tokens contain t.
CandidatesWith(candidates, t) ==
    {s \in candidates : t \in Range(Tokens(s))}

\* The terms that occur in the tokens of the files.
FileTerms == UNION {Range(Tokens(files[i].text)) : i \in 1..Len(files)}

\* The files whose tokens contain t.
FilesWith(t) == {i \in 1..Len(files) : t \in Range(Tokens(files[i].text))}

\* C7: the idf table handed to top_sentences is computed after the files
\* are ranked, over exactly the sentences of the files top_files returned
\* that have tokens, its N being the number of those sentences; the table
\* computed over the files stays as it was computed and is not the one
\* that scores sentences.
C7_SentenceScopedIdfs ==
    /\ pc \in {"import", "main", "file_idfs", "query", "input", "top_files",
                "sentences"}
          => (sentences = <<>> /\ DOMAIN idfs = {})
    /\ pc \in {"top_sentences", "print", "done"} =>
          /\ LET candidates == CandidateSentences
             IN /\ Ids(sentences) = candidates
                /\ DOMAIN idfs = UNION {Range(Tokens(s)) : s \in candidates}
                /\ \A t \in DOMAIN idfs :
                      idfs[t] = Ln(Cardinality(candidates),
                                   Cardinality(CandidatesWith(candidates, t)))
          /\ \A i \in 1..Len(sentences) :
                sentences[i].words = Tokens(sentences[i].id)
          /\ DOMAIN file_idfs = FileTerms
          /\ \A t \in DOMAIN file_idfs :
                file_idfs[t] = Ln(Len(files), Cardinality(FilesWith(t)))
    /\ pc \in {"print", "done"} =>
          /\ Len(scores) = Len(sentences)
          /\ \/ \E order \in Orders(query) : \A i \in 1..Len(sentences) :
                   scores[i].score[1]
                       = ClaimedMeasure(order, sentences[i].words, idfs)
             \/ \A i \in 1..Len(sentences) :
                   scores[i].score[1]
                       = ClaimedMeasureRounded(sentences[i].words, idfs)

C7_Witness ==
    /\ pc = "done"
    /\ Len(files) = 2
    /\ Len(sentences) = 2
    /\ Len(printed) = 2
    /\ printed[1] = Prompt
    /\ \E t \in query :
          /\ t \in Range(Tokens(printed[2]))
          /\ IdfGet(idfs, t) # IdfGet(file_idfs, t)

\* C8: every entry of the sentences mapping handed to compute_idfs and to
\* top_sentences has tokens, so the division by the number of tokens never
\* has a zero denominator, and every density lies in [0, 1].
C8_NoEmptySentence ==
    /\ \A i \in 1..Len(sentences) : sentences[i].words # <<>>
    /\ err # "ZeroDivisionError"
    /\ pc \in {"print", "done"} =>
          /\ Len(scores) = Len(sentences)
          /\ \A i \in 1..Len(scores) :
                LET density == scores[i].score[2]
                IN /\ density[2] > 0
                   /\ 0 <= density[1]
                   /\ density[1] <= density[2]
                   /\ density
                        = Reduce(<<Cardinality(QueryPositions(sentences[i].words)),
                                   Len(sentences[i].words)>>)

C8_Witness ==
    /\ pc = "done"
    /\ sentences # <<>>
    /\ \E f \in Range(filenames) :
          \E passage \in Range(Split(DictGet(files, f).text)) :
             \E s \in Range(SentTokenize(passage)) :
                /\ Tokens(s) = <<>>
                /\ s \notin Ids(sentences)

====
